---- MODULE Spec2Model ----
(***************************************************************************)
(* Model of src/file_manager.rs: BlockId, Page and FileManager.            *)
(*                                                                         *)
(* Three specifications share the variables:                               *)
(*   SpecPage  one Page and its typed accessors;                           *)
(*   Spec      one caller using a FileManager call after call;             *)
(*   SpecConc  several callers whose append calls interleave between the   *)
(*             metadata() read and set_len().                              *)
(*                                                                         *)
(* A usize is written in its signed view: n >= 0 is n itself and n < 0 is  *)
(* usize::MAX + 1 + n (so -1 is usize::MAX).  The buffers of the model are *)
(* far shorter than usize::MAX, so offset + length is the integer sum and  *)
(* it wrapped exactly when the offset is negative and the sum is not.      *)
(***************************************************************************)
EXTENDS Integers, Sequences, FiniteSets, TLC

VARIABLES
    overflow_checks, \* build profile: TRUE panics on usize overflow, FALSE wraps
    data,            \* Page.data of the page under test (SpecPage)
    pres,            \* the last Page accessor call and its outcome
    nops,            \* number of accessor calls made on the page
    dirExists,       \* does db_directory exist in the file system
    files,           \* file name -> Absent or the file's bytes
    block_size,      \* FileManager.block_size
    last,            \* the last FileManager call and its outcome
    issued,          \* file name -> block numbers returned by append so far
    pristine,        \* file name -> started empty and no write went past its end
    pc,              \* caller -> "idle" or "opened" (append between metadata and set_len)
    apFile,          \* caller -> file of its append in progress
    apLen,           \* caller -> length its append read from metadata()
    clean,           \* caller -> file length untouched since its metadata() read
    race,            \* pairs of callers whose appends both read before either extended
    ret              \* caller -> <<block number>> its latest append returned, << >> before

pageVars == <<data, pres, nops>>
fmVars   == <<dirExists, files, block_size, last, issued, pristine>>
concVars == <<pc, apFile, apLen, clean, race, ret>>
vars     == <<overflow_checks, data, pres, nops, dirExists, files, block_size,
              last, issued, pristine, pc, apFile, apLen, clean, race, ret>>

----------------------------------------------------------------------------
(* Bounds *)
MaxPageLen == 5
MaxPageOps == 2

(* 32-bit integers; TLC's integers are 32-bit as well, so 2^32 is never formed *)
Pow24 == 16777216
MaxI32 == 2147483647
MinI32 == -2147483647 - 1
ReplacementChar == 65533

\* sample arguments of the accessor calls; -1 is usize::MAX and -4 is the
\* offset whose offset + 4 wraps to 0
IntSamples == {0, 1, -1, 123, 16909060, MaxI32, MinI32}
Offsets == {0, 1, 2, MaxPageLen, -1, -4}
GetLens == {0, 2}
ByteVals == {<< >>, <<7, 200>>}
StrVals == {<<65, 66>>}

RECURSIVE SeqsUpTo(_, _)
SeqsUpTo(S, n) ==
    IF n = 0 THEN {<< >>}
    ELSE LET R == SeqsUpTo(S, n - 1)
         IN R \cup {Append(r, x) : r \in {q \in R : Len(q) = n - 1}, x \in S}

Zeros(n) == [i \in 1..n |-> 0]

----------------------------------------------------------------------------
(* Page *)

PageNew(n) == Zeros(n)

FromBytes(b) == b

\* usize comparison in the signed view
ULe(a, b) ==
    IF a >= 0 /\ b < 0 THEN TRUE
    ELSE IF a < 0 /\ b >= 0 THEN FALSE
    ELSE a <= b

\* offset + length wrapped around usize::MAX
Wrapped(offset, length) == offset < 0 /\ offset + length >= 0

\* a range check that only looks at the start and clamps the end
SliceOkClamped(buf, offset, length, checks) == offset >= 0 /\ offset <= Len(buf)

\* &self.data[offset..offset + length]: the index expression panics on
\* overflow when overflow checks are on; the slice panics when start > end
\* or end > len
SliceOk(buf, offset, length, checks) ==
    /\ ~(checks /\ Wrapped(offset, length))
    /\ ULe(offset, offset + length)
    /\ ULe(offset + length, Len(buf))

\* the bytes of a range SliceOk accepted (a byte outside the buffer, which
\* SliceOk never lets through, reads as 0)
Slice(buf, offset, length) ==
    [i \in 1..length |-> IF offset + i \in 1..Len(buf) THEN buf[offset + i] ELSE 0]

CopyFromSlice(buf, offset, src) ==
    [i \in 1..Len(buf) |->
        IF i - 1 >= offset /\ i - 1 < offset + Len(src)
        THEN src[i - offset] ELSE buf[i]]

ToLeBytes(v) ==
    LET w == IF v >= 0 THEN v ELSE v + MaxI32 + 1
        top == IF v >= 0 THEN 0 ELSE 128
    IN <<w % 256, (w \div 256) % 256, (w \div 65536) % 256, top + (w \div Pow24)>>

ToBeBytes(v) ==
    LET w == IF v >= 0 THEN v ELSE v + MaxI32 + 1
        top == IF v >= 0 THEN 0 ELSE 128
    IN <<top + (w \div Pow24), (w \div 65536) % 256, (w \div 256) % 256, w % 256>>

FromBeBytes(b) ==
    (IF b[1] >= 128 THEN b[1] - 256 ELSE b[1]) * Pow24
        + b[2] * 65536 + b[3] * 256 + b[4]

\* String::from_utf8_lossy for byte strings without a UTF-8 lead byte
\* (0xC2..0xF4): ASCII decodes to itself, any other byte to U+FFFD
Utf8Lossy(b) ==
    [i \in 1..Len(b) |-> IF b[i] < 128 THEN b[i] ELSE ReplacementChar]

NoCall == [op |-> "none", off |-> 0, len |-> 0, ival |-> 0, bytes |-> << >>,
           ok |-> TRUE]

Call(op, off, len, ival, bytes, ok) ==
    [op |-> op, off |-> off, len |-> len, ival |-> ival, bytes |-> bytes, ok |-> ok]

PageStep == nops < MaxPageOps /\ nops' = nops + 1

get_int(offset) ==
    /\ PageStep
    /\ LET ok == SliceOk(data, offset, 4, overflow_checks)
       IN pres' = Call("get_int", offset, 4,
                       IF ok THEN FromBeBytes(Slice(data, offset, 4)) ELSE 0,
                       << >>, ok)
    /\ UNCHANGED <<data, overflow_checks, fmVars, concVars>>

get_bytes(offset, length) ==
    /\ PageStep
    /\ LET ok == SliceOk(data, offset, length, overflow_checks)
       IN pres' = Call("get_bytes", offset, length, 0,
                       IF ok THEN Slice(data, offset, length) ELSE << >>, ok)
    /\ UNCHANGED <<data, overflow_checks, fmVars, concVars>>

get_string(offset, length) ==
    /\ PageStep
    /\ LET ok == SliceOk(data, offset, length, overflow_checks)
       IN pres' = Call("get_string", offset, length, 0,
                       IF ok THEN Utf8Lossy(Slice(data, offset, length)) ELSE << >>, ok)
    /\ UNCHANGED <<data, overflow_checks, fmVars, concVars>>

set_int(offset, val) ==
    /\ PageStep
    /\ LET ok == SliceOk(data, offset, 4, overflow_checks)
       IN /\ pres' = Call("set_int", offset, 4, val, << >>, ok)
          /\ data' = IF ok THEN CopyFromSlice(data, offset, ToBeBytes(val)) ELSE data
    /\ UNCHANGED <<overflow_checks, fmVars, concVars>>

set_bytes(offset, val) ==
    /\ PageStep
    /\ LET ok == SliceOk(data, offset, Len(val), overflow_checks)
       IN /\ pres' = Call("set_bytes", offset, Len(val), 0, val, ok)
          /\ data' = IF ok THEN CopyFromSlice(data, offset, val) ELSE data
    /\ UNCHANGED <<overflow_checks, fmVars, concVars>>

\* a &str is its UTF-8 bytes; as_bytes() is a view of them
set_string(offset, val) ==
    /\ PageStep
    /\ LET ok == SliceOk(data, offset, Len(val), overflow_checks)
       IN /\ pres' = Call("set_string", offset, Len(val), 0, val, ok)
          /\ data' = IF ok THEN CopyFromSlice(data, offset, val) ELSE data
    /\ UNCHANGED <<overflow_checks, fmVars, concVars>>

----------------------------------------------------------------------------
(* FileManager *)

(* Bounds *)
MaxBlockSize == 2
MaxFileLen == 4
MaxBlk == 1
MaxIoLen == 2
MaxInitLen == 2
NumCallers == 2

FileNames == {"data.tbl"}
\* FileManager never looks at a byte's value: two values tell a byte that was
\* moved from one that set_len or a seek past the end filled in
Bytes == {0, 1}
BlockNums == 0..MaxBlk
Callers == 1..NumCallers

Absent == [exists |-> FALSE, bytes |-> << >>]
Present(b) == [exists |-> TRUE, bytes |-> b]

BlockId(filename, block_number) == [filename |-> filename, block_number |-> block_number]

\* Page::new(n) pages handed to read, and pages of any length handed to write
ReadPages == {PageNew(n) : n \in 0..MaxIoLen}
WritePages == SeqsUpTo(Bytes, MaxIoLen)

\* File::open(&path)
OpenRead(f) == f.exists

OpenWriteCreate(f) == TRUE

\* OpenOptions::new().write(true).open(&path): no create flag
OpenWrite(f) == f.exists

\* OpenOptions::new().append(true).open(&path): no create flag
OpenAppend(f) == f.exists

\* blk.number() * self.block_size
SeekPos(number, bs) == number * bs

\* bytes of the file from pos on (none when pos is at or beyond the end)
Available(bytes, pos) == IF pos >= Len(bytes) THEN 0 ELSE Len(bytes) - pos

ReadFromStart(bytes, pos, buf) == Slice(bytes, 0, Len(buf))

\* file.read_exact(&mut page.data): fills the whole buffer, whatever its
\* length, from the bytes at pos
ReadExact(bytes, pos, buf) == Slice(bytes, pos, Len(buf))

ReadExactOk(bytes, pos, buf) == Available(bytes, pos) >= Len(buf)

\* what a failed read_exact leaves in the buffer: the bytes that were there
ReadShort(bytes, pos, buf) ==
    [i \in 1..Len(buf) |-> IF i <= Available(bytes, pos) THEN bytes[pos + i] ELSE buf[i]]

\* file.write_all(&page.data) at pos: the whole buffer, whatever its length;
\* a gap between the old end and pos reads as zeros
WriteAll(bytes, pos, buf) ==
    IF Len(buf) = 0 THEN bytes
    ELSE LET n == IF pos + Len(buf) > Len(bytes) THEN pos + Len(buf) ELSE Len(bytes)
         IN [i \in 1..n |->
                IF i - 1 >= pos /\ i - 1 < pos + Len(buf) THEN buf[i - pos]
                ELSE IF i <= Len(bytes) THEN bytes[i] ELSE 0]

BlockNumAtSetLen(seen, current, bs) == current \div bs

\* let new_block_num = length / self.block_size, from the length metadata()
\* returned (seen), not from the file's length when set_len runs (current)
AppendBlockNum(seen, current, bs) == seen \div bs

AppendNewLenSame(new_block_num, bs) == new_block_num * bs

\* (new_block_num + 1) * self.block_size
AppendNewLen(new_block_num, bs) == (new_block_num + 1) * bs

\* File::set_len: truncates, or extends with zeros
SetLen(bytes, size) ==
    IF size <= Len(bytes) THEN SubSeq(bytes, 1, size)
    ELSE bytes \o Zeros(size - Len(bytes))

\* (length as usize + self.block_size - 1) / self.block_size
LengthBlocks(bytes, bs) == (Len(bytes) + bs - 1) \div bs

NoOp == [op |-> "none", file |-> "", num |-> 0, page |-> << >>, out |-> << >>,
         ok |-> TRUE, ret |-> 0, flag |-> FALSE]

Done(op, file, num, page, out, ok, r, flag) ==
    [op |-> op, file |-> file, num |-> num, page |-> page, out |-> out,
     ok |-> ok, ret |-> r, flag |-> flag]

read(blk, page) ==
    LET f == files[blk.filename]
        pos == SeekPos(blk.block_number, block_size)
        ok == OpenRead(f) /\ ReadExactOk(f.bytes, pos, page)
        out == IF ok THEN ReadExact(f.bytes, pos, page)
               ELSE IF OpenRead(f) THEN ReadShort(f.bytes, pos, page) ELSE page
    IN /\ last' = Done("read", blk.filename, blk.block_number, page, out, ok, 0, FALSE)
       /\ UNCHANGED <<dirExists, files, block_size, issued, pristine,
                      overflow_checks, pageVars, concVars>>

\* the effect of write on the file system
WriteFile(blk, page) ==
    LET f == files[blk.filename]
        pos == SeekPos(blk.block_number, block_size)
    IN IF OpenWrite(f)
       THEN [files EXCEPT ![blk.filename] = Present(WriteAll(f.bytes, pos, page))]
       ELSE files

write(blk, page) ==
    LET f == files[blk.filename]
        pos == SeekPos(blk.block_number, block_size)
    IN /\ pos + Len(page) <= MaxFileLen
       /\ files' = WriteFile(blk, page)
       /\ last' = Done("write", blk.filename, blk.block_number, page, << >>,
                       OpenWrite(f), 0, FALSE)
       /\ pristine' = [pristine EXCEPT ![blk.filename] =
                          @ /\ Len(files'[blk.filename].bytes) = Len(f.bytes)]
       /\ UNCHANGED <<dirExists, block_size, issued, overflow_checks, pageVars, concVars>>

\* append run to completion by one caller: metadata() and set_len() see the
\* same file
append(filename) ==
    LET f == files[filename]
        new_block_num == AppendBlockNum(Len(f.bytes), Len(f.bytes), block_size)
        size == AppendNewLen(new_block_num, block_size)
    IN /\ size <= MaxFileLen
       /\ IF OpenAppend(f)
          THEN /\ files' = [files EXCEPT ![filename] = Present(SetLen(f.bytes, size))]
               /\ issued' = [issued EXCEPT ![filename] = @ \cup {new_block_num}]
               /\ last' = Done("append", filename, new_block_num, << >>, << >>,
                               TRUE, new_block_num, FALSE)
          ELSE /\ UNCHANGED <<files, issued>>
               /\ last' = Done("append", filename, 0, << >>, << >>, FALSE, 0, FALSE)
       /\ UNCHANGED <<dirExists, block_size, pristine, overflow_checks, pageVars, concVars>>

is_new ==
    /\ last' = Done("is_new", "", 0, << >>, << >>, TRUE, 0, ~dirExists)
    /\ UNCHANGED <<dirExists, files, block_size, issued, pristine,
                   overflow_checks, pageVars, concVars>>

length(filename) ==
    LET f == files[filename]
    IN /\ last' = Done("length", filename, 0, << >>, << >>, OpenRead(f),
                       IF OpenRead(f) THEN LengthBlocks(f.bytes, block_size) ELSE 0, FALSE)
       /\ UNCHANGED <<dirExists, files, block_size, issued, pristine,
                      overflow_checks, pageVars, concVars>>

get_block_size ==
    /\ last' = Done("block_size", "", 0, << >>, << >>, TRUE, block_size, FALSE)
    /\ UNCHANGED <<dirExists, files, block_size, issued, pristine,
                   overflow_checks, pageVars, concVars>>

----------------------------------------------------------------------------
(* append with its two file-system calls as separate steps, as several    *)
(* callers sharing a FileManager can interleave them                      *)

Pending(d, filename) == pc[d] = "opened" /\ apFile[d] = filename

\* callers whose metadata() read is overtaken by a change of the file's length
Overtaken(filename, oldLen, newLen) ==
    [d \in Callers |-> clean[d] /\ ~(Pending(d, filename) /\ oldLen # newLen)]

\* open + metadata(): lines 94-95
append_open(c, filename) ==
    LET f == files[filename]
    IN /\ pc[c] = "idle"
       /\ IF OpenAppend(f)
          THEN /\ pc' = [pc EXCEPT ![c] = "opened"]
               /\ apFile' = [apFile EXCEPT ![c] = filename]
               /\ apLen' = [apLen EXCEPT ![c] = Len(f.bytes)]
               /\ clean' = [clean EXCEPT ![c] = TRUE]
               /\ race' = {p \in race : c \notin p}
                            \cup {{c, d} : d \in {e \in Callers \ {c} :
                                                    Pending(e, filename) /\ clean[e]}}
               /\ ret' = [ret EXCEPT ![c] = << >>]
               /\ UNCHANGED last
          ELSE /\ last' = Done("append", filename, 0, << >>, << >>, FALSE, 0, FALSE)
               /\ UNCHANGED concVars
       /\ UNCHANGED <<dirExists, files, block_size, issued, pristine,
                      overflow_checks, pageVars>>

\* new_block_num, set_len and the return: lines 96-98
append_set_len(c) ==
    LET filename == apFile[c]
        f == files[filename]
        new_block_num == AppendBlockNum(apLen[c], Len(f.bytes), block_size)
        size == AppendNewLen(new_block_num, block_size)
    IN /\ pc[c] = "opened"
       /\ size <= MaxFileLen
       /\ files' = [files EXCEPT ![filename] = Present(SetLen(f.bytes, size))]
       /\ pc' = [pc EXCEPT ![c] = "idle"]
       /\ ret' = [ret EXCEPT ![c] = <<new_block_num>>]
       /\ clean' = Overtaken(filename, Len(f.bytes), size)
       /\ last' = Done("append", filename, new_block_num, << >>, << >>,
                       TRUE, new_block_num, FALSE)
       /\ UNCHANGED <<apFile, apLen, race, dirExists, block_size, issued, pristine,
                      overflow_checks, pageVars>>

\* a write of one block by any caller while appends are in progress
write_during(blk, page) ==
    LET f == files[blk.filename]
        pos == SeekPos(blk.block_number, block_size)
    IN /\ pos + Len(page) <= MaxFileLen
       /\ files' = WriteFile(blk, page)
       /\ last' = Done("write", blk.filename, blk.block_number, page, << >>,
                       OpenWrite(f), 0, FALSE)
       /\ clean' = Overtaken(blk.filename, Len(f.bytes), Len(files'[blk.filename].bytes))
       /\ UNCHANGED <<pc, apFile, apLen, race, ret, dirExists, block_size, issued,
                      pristine, overflow_checks, pageVars>>

----------------------------------------------------------------------------
(* Specifications *)

IdleCallers ==
    /\ pc = [c \in Callers |-> "idle"]
    /\ apFile = [c \in Callers |-> ""]
    /\ apLen = [c \in Callers |-> 0]
    /\ clean = [c \in Callers |-> TRUE]
    /\ race = {}
    /\ ret = [c \in Callers |-> << >>]

NoFileManager ==
    /\ dirExists = FALSE
    /\ files = [f \in FileNames |-> Absent]
    /\ block_size = 1
    /\ last = NoOp
    /\ issued = [f \in FileNames |-> {}]
    /\ pristine = [f \in FileNames |-> FALSE]

NoPage == data = << >> /\ pres = NoCall /\ nops = 0

\* a page is built by Page::new or Page::from_bytes
InitPage ==
    /\ overflow_checks \in BOOLEAN
    /\ data \in {PageNew(n) : n \in 0..MaxPageLen}
                  \cup {FromBytes([i \in 1..MaxPageLen |-> 9])}
    /\ pres = NoCall
    /\ nops = 0
    /\ NoFileManager
    /\ IdleCallers

NextPage ==
    \/ \E o \in Offsets : get_int(o)
    \/ \E o \in Offsets, n \in GetLens : get_bytes(o, n)
    \/ \E o \in Offsets, n \in GetLens : get_string(o, n)
    \/ \E o \in Offsets, v \in IntSamples : set_int(o, v)
    \/ \E o \in Offsets, b \in ByteVals : set_bytes(o, b)
    \/ \E o \in Offsets, s \in StrVals : set_string(o, s)

SpecPage == InitPage /\ [][NextPage]_vars

\* the files are made outside the FileManager, with any bytes, inside an
\* existing directory; FileManager::new fixes the block size.  The offsets
\* FileManager computes stay far below usize::MAX here, so the build profile
\* makes no difference to it
InitFiles(contents) ==
    /\ overflow_checks = FALSE
    /\ NoPage
    /\ dirExists \in BOOLEAN
    /\ files \in [FileNames -> {Absent} \cup {Present(b) : b \in contents}]
    /\ dirExists = FALSE => \A f \in FileNames : ~files[f].exists
    /\ block_size \in 1..MaxBlockSize
    /\ last = NoOp
    /\ issued = [f \in FileNames |-> {}]
    /\ pristine = [f \in FileNames |-> files[f].exists /\ files[f].bytes = << >>]
    /\ IdleCallers

Init == InitFiles(SeqsUpTo(Bytes, MaxInitLen))

Next ==
    \/ \E f \in FileNames, k \in BlockNums, p \in ReadPages : read(BlockId(f, k), p)
    \/ \E f \in FileNames, k \in BlockNums, p \in WritePages : write(BlockId(f, k), p)
    \/ \E f \in FileNames : append(f)
    \/ is_new
    \/ \E f \in FileNames : length(f)
    \/ get_block_size

Spec == Init /\ [][Next]_vars

InitConc == InitFiles({Zeros(n) : n \in 0..MaxInitLen})

NextConc ==
    \/ \E c \in Callers, f \in FileNames : append_open(c, f)
    \/ \E c \in Callers : append_set_len(c)
    \/ \E f \in FileNames, k \in BlockNums : write_during(BlockId(f, k), PageNew(block_size))

SpecConc == InitConc /\ [][NextConc]_vars

----------------------------------------------------------------------------
(* Properties of Page, checked under SpecPage *)

\* the call of this step addresses [off, off + len) inside a buffer of n bytes
InBuffer(call, n) == call.off >= 0 /\ call.off + call.len <= n

\* b is the big-endian two's-complement encoding of the 32-bit value v
IsBigEndianOf(b, v) ==
    /\ Len(b) = 4
    /\ \A i \in 1..4 : b[i] \in 0..255
    /\ (v < 0) <=> (b[1] >= 128)
    /\ (b[1] - (IF v < 0 THEN 256 ELSE 0)) * Pow24 + b[2] * 65536 + b[3] * 256 + b[4] = v

SetIntStep ==
    /\ nops' = nops + 1
    /\ pres'.op = "set_int"
    /\ InBuffer(pres', Len(data))

\* C6: set_int(o, v) with o + 4 <= buffer length succeeds, leaves the
\* big-endian two's-complement encoding of v in [o, o+4) (v = 1 gives
\* [0,0,0,1]) and no other byte changed; a get_int(o) that follows returns v.
C6_IntRoundTrip ==
    [][ /\ SetIntStep =>
            /\ pres'.ok
            /\ Len(data') = Len(data)
            /\ IsBigEndianOf(Slice(data', pres'.off, 4), pres'.ival)
            /\ pres'.ival = 1 => Slice(data', pres'.off, 4) = <<0, 0, 0, 1>>
            /\ \A i \in 1..Len(data) :
                  (i - 1 < pres'.off \/ i - 1 >= pres'.off + 4) => data'[i] = data[i]
        /\ ( /\ pres.op = "set_int" /\ pres.ok
             /\ nops' = nops + 1
             /\ pres'.op = "get_int" /\ pres'.off = pres.off )
           => (pres'.ok /\ pres'.ival = pres.ival)
      ]_vars

\* i32::MIN was stored at offset 1 of a page of 9s and read back
C6_Witness ==
    /\ pres.op = "get_int" /\ pres.ok /\ pres.ival = MinI32 /\ pres.off = 1
    /\ Len(data) = MaxPageLen /\ data[1] = 9
    /\ Slice(data, 1, 4) = <<128, 0, 0, 0>>

\* C7: an accessor call whose range is not fully inside the buffer fails,
\* and the buffer's length and contents are what they were before the call.
C7_BoundsEnforced ==
    [][ ( /\ nops' = nops + 1
          /\ ~InBuffer(pres', Len(data)) )
        => (~pres'.ok /\ data' = data)
      ]_vars

\* a set_int whose offset + 4 wraps around usize::MAX failed on a page that
\* holds data, in a build without overflow checks
C7_Witness ==
    /\ pres.op = "set_int" /\ pres.off = -4 /\ ~pres.ok
    /\ ~overflow_checks
    /\ Len(data) = MaxPageLen /\ data[1] = 9

----------------------------------------------------------------------------
(* Properties of FileManager used by one caller, checked under Spec *)

\* the file region of block k
InBlock(i, k) == i - 1 >= k * block_size /\ i - 1 < (k + 1) * block_size

\* C1: write(BlockId(file, k), page) with a page of exactly block_size bytes
\* on an existing file, followed by read(BlockId(file, k), Page::new(block_size)),
\* succeeds and the page read equals the page written.
C1_BlockRoundTrip ==
    [][ ( /\ last.op = "write" /\ last.ok /\ Len(last.page) = block_size
          /\ last'.op = "read" /\ last'.file = last.file /\ last'.num = last.num
          /\ last'.page = PageNew(block_size) )
        => (last'.ok /\ last'.out = last.page)
      ]_vars

\* a page that is not all zeros was written beyond the end of the file and
\* read back
C1_Witness ==
    /\ last.op = "read" /\ last.ok /\ last.num = 1
    /\ block_size = 2 /\ last.out = <<1, 0>>
    /\ last.page = PageNew(2)

\* C2 as claimed: if length(filename) reports N blocks, append(filename)
\* returns block N and length(filename) then reports N + 1.
C2_AppendAfterLength ==
    [][ (last'.op = "append" /\ last'.ok)
        => /\ last'.ret = LengthBlocks(files[last'.file].bytes, block_size)
           /\ LengthBlocks(files'[last'.file].bytes, block_size) = last'.ret + 1
      ]_vars

\* C3 as claimed: read succeeds exactly when the file exists and block_size
\* bytes are available at blk.number() * block_size, and then the page holds
\* exactly the block_size bytes of that region, whatever the page's length.
C3_ReadExactlyOneBlock ==
    [][ last'.op = "read"
        => LET f == files[last'.file]
               pos == last'.num * block_size
           IN /\ last'.ok <=> (f.exists /\ pos + block_size <= Len(f.bytes))
              /\ last'.ok => last'.out = Slice(f.bytes, pos, block_size)
      ]_vars

\* C4 as claimed: a successful write changes exactly the block_size bytes of
\* block blk.number() to the page's contents, whatever the page's length, and
\* every other byte the file had keeps its value.
C4_WriteExactlyOneBlock ==
    [][ (last'.op = "write" /\ last'.ok)
        => LET old == files[last'.file].bytes
               new == files'[last'.file].bytes
               pos == last'.num * block_size
           IN /\ Len(new) >= pos + block_size
              /\ Slice(new, pos, block_size) = last'.page
              /\ \A i \in 1..Len(old) :
                    ~InBlock(i, last'.num) => (i <= Len(new) /\ new[i] = old[i])
      ]_vars

\* C5: no FileManager call creates the directory or a file; is_new() returns
\* TRUE exactly when the directory does not exist; read, write, append and
\* length on an absent file fail.
C5_CreatesNothing ==
    [][ /\ dirExists' = dirExists
        /\ \A f \in FileNames : files'[f].exists = files[f].exists
        /\ last'.op = "is_new" => (last'.flag <=> ~dirExists)
        /\ ( /\ last'.op \in {"read", "write", "append", "length"}
             /\ ~files[last'.file].exists )
           => (~last'.ok /\ files' = files)
      ]_vars

\* a write on an absent file failed while the directory is absent
C5_Witness ==
    /\ last.op = "write" /\ ~last.ok /\ Len(last.page) > 0
    /\ ~dirExists /\ ~files[last.file].exists

\* C9: every append returns a block number greater than every block number
\* an earlier append returned for that file; on a file that started empty and
\* that no write extended, the appends returned 0, 1, 2, ...
C9_AppendIncreasing ==
    [][ /\ (last'.op = "append" /\ last'.ok)
           => \A m \in issued[last'.file] : last'.ret > m
        /\ \A f \in FileNames :
              pristine'[f] => issued'[f] = 0 .. (Cardinality(issued'[f]) - 1)
      ]_vars

\* a file that did not start empty was appended to twice with a write between
C9_Witness ==
    \E f \in FileNames :
        /\ Cardinality(issued[f]) >= 2 /\ ~pristine[f]
        /\ last.op = "append" /\ last.ok /\ last.ret >= 2

----------------------------------------------------------------------------
(* Properties of interleaved appends, checked under SpecConc *)

\* C8: two append calls on one file that both read the length before either
\* extended the file (and nothing else changed its length between the two
\* reads) return the same BlockId.
C8_AppendRace ==
    \A p \in race : \A c \in p, d \in p :
        (ret[c] # << >> /\ ret[d] # << >>)
            => BlockId(apFile[c], ret[c][1]) = BlockId(apFile[d], ret[d][1])

\* both racing appends have returned, after the file had grown
C8_Witness ==
    \E c \in Callers, d \in Callers :
        /\ c # d /\ {c, d} \in race
        /\ ret[c] # << >> /\ ret[d] = ret[c] /\ ret[c][1] >= 1

\* C10 as claimed: the byte length of a file never decreases from one step
\* to the next, also when append calls interleave.
C10_NeverShrinks ==
    [][ \A f \in FileNames :
            files[f].exists => Len(files'[f].bytes) >= Len(files[f].bytes)
      ]_vars

====
